---- MODULE Spec2Model ----
(***************************************************************************)
(* Client-side chat synchronisation of nego-lah: the useChat hook          *)
(* (frontend/src/hooks/useChat.ts) and the Admin chat panel                *)
(* (frontend/src/pages/Admin.tsx).                                         *)
(*                                                                         *)
(* Text is a sequence of one-character strings, so that split, trim and    *)
(* substring are computed as the JavaScript computes them.  A message id   *)
(* is a triple <<kind, n, sub>>: every crypto.randomUUID() call site gets  *)
(* its own kind and ordinal, `${P}-${k}` is P with sub = k.                *)
(***************************************************************************)
EXTENDS Integers, Sequences, FiniteSets, TLC

(***************************************************************************)
(* Bounds of the model                                                     *)
(***************************************************************************)
\* operations the environment starts per run: sendMessage calls,
\* loadMoreMessages calls and realtime events delivered, taken together
MaxOps == 3

\* a sendMessage call is the long operation (four awaits and a playback): at
\* most half of the operations, rounded up, are sends
Sends == 1..((MaxOps + 1) \div 2)
LoadMores == 1..MaxOps
Fetches == 1..MaxOps
\* the clock stops at MaxTime and moves by at most TickMs
MaxTime == 5000
TickMs == 1000

(***************************************************************************)
(* Text                                                                    *)
(***************************************************************************)
NL == "\n"
Whitespace == {" ", NL}
Empty == << >>

\* String.prototype.trim() === '' (falsy in the filter callback)
IsBlank(p) == \A i \in 1..Len(p) : p[i] \in Whitespace

\* fullContent.includes('\n\n')
IncludesNN(t) == \E i \in 1..(Len(t) - 1) : t[i] = NL /\ t[i + 1] = NL

\* String.prototype.split('\n\n'): left to right, non-overlapping
RECURSIVE SplitFrom(_, _)
SplitFrom(t, cur) ==
    IF t = Empty THEN <<cur>>
    ELSE IF Len(t) >= 2 /\ t[1] = NL /\ t[2] = NL
         THEN <<cur>> \o SplitFrom(SubSeq(t, 3, Len(t)), Empty)
         ELSE SplitFrom(Tail(t), Append(cur, Head(t)))

SplitNN(t) == SplitFrom(t, Empty)

NotBlank(p) == ~IsBlank(p)

\* useChat.ts 238-240: the paragraphs of a terminal event's content
Paragraphs(fullContent) ==
    IF IncludesNN(fullContent)
    THEN SelectSeq(SplitNN(fullContent), NotBlank)
    ELSE <<fullContent>>

\* String.prototype.substring(0, n)
SubstringShort(t, n) == SubSeq(t, 1, n - 1)
Substring0(t, n) == SubSeq(t, 1, n)

(***************************************************************************)
(* Messages                                                                *)
(***************************************************************************)
NoSource == "undefined"
NoSub == -1
NoId == <<"none", 0, NoSub>>

Msg(id, role, content, source) ==
    [id |-> id, role |-> role, content |-> content, source |-> source]

\* crypto.randomUUID() at useChat.ts 112 and 131, for the s-th sendMessage call
UserMessageId(s) == <<"send-user", s, NoSub>>
AssistantMessageId(s) == <<"send-assistant", s, NoSub>>
\* `${assistantMessageId}-${pIdx}`
SubId(id, k) == <<id[1], id[2], k>>

\* 'human' -> 'user', 'ai' -> 'assistant', anything else as it is
FrontendRole(role) ==
    IF role = "human" THEN "user"
    ELSE IF role = "ai" THEN "assistant"
    ELSE role

\* Array.prototype.map over the store
MapSeq(s, Op(_)) == [i \in 1..Len(s) |-> Op(s[i])]

(***************************************************************************)
(* Inputs                                                                  *)
(***************************************************************************)
\* the text typed by the user
UserTexts == { <<"h", "i">> }

\* content of the terminal stream event {done: true, content}
Responses ==
    { Empty,
      <<"a", "b">>,
      <<NL, NL>>,
      <<"a", NL, NL, "b">> }

\* GET /chat/settings/:userId
SettingsOutcomes == {"reject", "not-ok", "missing", "enabled", "disabled"}

\* POST /chat/stream: res.ok && res.body, a non-success response, a rejection
StreamOutcomes == {"ok", "not-ok", "reject"}

\* channel.send of the user's message
BroadcastOutcomes == {"sent", "throws"}

\* POST /chat: {response}, an empty response, an error body with and without
\* detail, a rejection
FallbackOutcomes == {"response", "no-response", "detail", "no-detail", "reject"}
FallbackResponse == <<"o", "k">>

UserIds == {"u1", "guest-1"}
IsGuest(u) == u = "guest-1"
NoUser == ""

(***************************************************************************)
(* Realtime channels of a supabase client                                  *)
(***************************************************************************)
\* the browser sessions, each with its own supabase client (lib/supabase.ts)
Clients == {"chat", "admin"}

\* the channels of a client's registry
ChannelsOf(chs, client) == {c \in chs : c.client = client}

\* supabase.channel(`chat:${topic}`) called by a call site.  Whether the call
\* returns a channel of the topic the registry already holds or makes
\* another one is decided by the library, not by this repository: `own`
\* records that the registry held none of the topic at the call, so that
\* the channel is an object of its own whatever the library does.
Channel(chs, client, topic, by, subscribed) ==
    [client |-> client, topic |-> topic, by |-> by, subscribed |-> subscribed,
     own |-> \A c \in ChannelsOf(chs, client) : c.topic # topic]

WithChannel(chs, client, topic, by, subscribed) ==
    chs \cup {Channel(chs, client, topic, by, subscribed)}

\* supabase.removeChannel(channel) for the channel a subscription effect
\* made: that channel is gone; a channel of the same topic got by another
\* call may have been the same object, so it is no longer known to be there
RemoveChannel(chs, client, topic, by) ==
    {IF c.client = client /\ c.topic = topic THEN [c EXCEPT !.own = FALSE]
     ELSE c :
       c \in {d \in chs : ~(d.client = client /\ d.topic = topic /\ d.by = by)}}

NoError == "null"


(***************************************************************************)
(* Backend payloads                                                        *)
(***************************************************************************)
\* a message as the backend stores it: {role, content, source?, id?}
Raw(role, content, source, id) ==
    [role |-> role, content |-> content, source |-> source, id |-> id]

RawHuman == Raw("human", <<"h", "i">>, "human", NoId)
RawAi == Raw("ai", <<"a", "b">>, "ai", NoId)
RawAiSplit == Raw("ai", <<"a", NL, NL, " ", "b">>, NoSource, NoId)
RawSystem == Raw("system", <<"s">>, "system", NoId)
RawAdmin == Raw("ai", <<"o", "k">>, "admin", <<"db", 1, NoSub>>)

\* payload.new.messages of a conversations UPDATE: an array, or not one
DbPayloads ==
    { [isArray |-> FALSE, messages |-> << >>],
      [isArray |-> TRUE, messages |-> <<RawSystem>>],
      [isArray |-> TRUE, messages |-> <<RawHuman, RawAdmin>>] }

\* payload of a new_message broadcast: {role, content, source}
BroadcastMessages ==
    { Raw("ai", <<"o", "k">>, "admin", NoId),
      Raw("system", <<"s">>, "system", NoId),
      Raw("human", <<"h", "i">>, "human", NoId),
      Raw("ai", <<"a", "b">>, "ai", NoId) }

\* GET /chat/history/:userId: a rejection, a non-success response, a body
\* without a messages array, or a page of messages
HistoryOutcomes ==
    { [kind |-> "reject", messages |-> << >>],
      [kind |-> "not-ok", messages |-> << >>],
      [kind |-> "no-array", messages |-> << >>],
      [kind |-> "page", messages |-> << >>],
      [kind |-> "page", messages |-> <<RawHuman>>],
      [kind |-> "page", messages |-> <<RawHuman, RawAiSplit>>] }

\* Date.now() when a load-more page is converted
DateNows == {1000, 1001}

(***************************************************************************)
(* State                                                                   *)
(***************************************************************************)
VARIABLES
    \* useChat
    userId,          \* the hook's argument
    messages,        \* state.messages
    isLoading,       \* state.isLoading
    error,           \* state.error
    historyLoaded,
    historyLoading,
    isTypingRef,     \* isTypingRef.current
    history,         \* position of the loadHistory effect
    sends,           \* one record per sendMessage call
    more,            \* one record per loadMoreMessages call
    rtCount,         \* realtime events delivered so far
    lastEvent,       \* the realtime event each side's handlers ran last
    \* Admin chat panel
    selectedUserChat,
    chatOffset,
    hasMoreMessages,
    isLoadingHistory,
    adminChannel,    \* the userId the live subscription was made for
    fetches,         \* one record per fetchUserChat call
    adminRtCount,    \* realtime events delivered to the panel so far
    \* typing indicators of both sides
    now,             \* the clock, in ms
    timers,          \* the pending setTimeout callbacks
    isPartnerTyping,
    typingTimeoutRef,
    isUserTyping,
    adminTypingTimeoutRef,
    typingEvents,    \* when each side got typing events of its counterpart
    \* Chat page
    input,           \* the text of the textarea
    attachments,     \* the number of files attached
    \* realtime channels
    mounted,         \* the component that uses the hook is mounted
    hookChannel,     \* the userId the hook's live subscription was made for
    channels,        \* the channels got from supabase.channel and not removed
    \* paragraph splitting on its own
    split            \* a text, its paragraphs, and those of the joined paragraphs

chatVars == <<userId, messages, isLoading, error, historyLoaded, historyLoading,
              isTypingRef, history, sends, more, rtCount>>

adminVars == <<selectedUserChat, chatOffset, hasMoreMessages, isLoadingHistory,
               adminChannel, fetches, adminRtCount>>

typingVars == <<now, timers, isPartnerTyping, typingTimeoutRef, isUserTyping,
                adminTypingTimeoutRef, typingEvents>>

pageVars == <<input, attachments>>

channelVars == <<mounted, hookChannel, channels>>

vars ==
    <<chatVars, adminVars, typingVars, pageVars, channelVars, lastEvent, split>>

\* an action of the hook or of its page leaves the panel, the typing
\* indicators and the hook's subscription alone
ChatFrame == UNCHANGED <<adminVars, typingVars, mounted, hookChannel, split>>

\* an action of the hook leaves the page's form and the channels alone as
\* well
ChatOnly == ChatFrame /\ UNCHANGED <<pageVars, channels>>

\* a realtime event as a handler gets it: the event name and the payload (a
\* messages array, or one message)
Event(name, isArray, msgs) ==
    [name |-> name, isArray |-> isArray, messages |-> msgs]
NoEvent == Event("none", FALSE, << >>)

\* a sendMessage call: where the async function stands (pc), its text, how
\* the settings fetch settled (kept until the next await settles), aiEnabled /
\* assistantMessageAdded (ai), and the closure of its typing playback: none,
\* a pending setTimeout (timer) or over
IdleSend ==
    [pc |-> "idle", userId |-> NoUser, message |-> Empty, settings |-> "none",
     ai |-> TRUE,
     playback |-> "none", paragraphs |-> << >>, paragraphIndex |-> 0,
     charIndex |-> 0]

\* a loadMoreMessages call: position, the captured count, the returned value
IdleMore == [pc |-> "idle", currentCount |-> 0, ret |-> "none"]

\* the operations started so far
Card(S) == Cardinality(S)
OpsStarted ==
    rtCount + Card({s \in Sends : sends[s].pc # "idle"})
            + Card({l \in LoadMores : more[l].pc # "idle"})
            + adminRtCount + Card({f \in Fetches : fetches[f].pc # "idle"})
CanStart == OpsStarted < MaxOps

ChatInit ==
    /\ userId \in UserIds
    /\ messages = << >>
    /\ isLoading = FALSE
    /\ error = NoError
    /\ historyLoaded = FALSE
    /\ historyLoading = TRUE
    /\ isTypingRef = FALSE
    /\ history = "mount"
    /\ sends = [s \in Sends |-> IdleSend]
    /\ more = [l \in LoadMores |-> IdleMore]
    /\ rtCount = 0
    /\ lastEvent = [chat |-> NoEvent, admin |-> NoEvent]

(***************************************************************************)
(* sendMessage                                                             *)
(***************************************************************************)
\* useChat.ts 120-129: aiEnabled after the settings fetch
AiEnabledFailClosed(outcome) == outcome = "enabled"
AiEnabledAlways(outcome) == TRUE
AiEnabled(outcome) ==
    CASE outcome = "reject" -> TRUE      \* catch: keeps the default
      [] outcome = "not-ok" -> TRUE      \* response.ok false: keeps the default
      [] outcome = "missing" -> TRUE     \* data.ai_enabled ?? true
      [] outcome = "enabled" -> TRUE
      [] outcome = "disabled" -> FALSE

AssistantPlaceholder(s) == Msg(AssistantMessageId(s), "assistant", Empty, "ai")

\* useChat.ts 103-162: the call, the settings fetch and the optimistic
\* append.  Nothing of the hook is read or written between the call and the
\* settled fetch, and the append works on the store of that moment, so the
\* call takes effect when the fetch settles.
Sending(s, text, outcome) ==
    /\ mounted
    /\ CanStart
    /\ sends[s].pc = "idle"
    /\ s > 1 => sends[s - 1].pc # "idle"
    /\ LET aiEnabled == AiEnabled(outcome)
           userMessage == Msg(UserMessageId(s), "user", text, NoSource)
       IN
       /\ messages' = IF aiEnabled
                      THEN messages \o <<userMessage, AssistantPlaceholder(s)>>
                      ELSE Append(messages, userMessage)
       /\ isLoading' = aiEnabled
       /\ error' = NoError
       /\ sends' = [sends EXCEPT ![s].pc = "stream", ![s].userId = userId,
                                 ![s].message = text,
                                 ![s].settings = outcome, ![s].ai = aiEnabled]
    /\ UNCHANGED <<userId, historyLoaded, historyLoading, isTypingRef, history,
                   more, rtCount>>

\* a call of sendMessage by any caller of the hook
SendMessage(s, text, outcome) ==
    /\ Sending(s, text, outcome)
    /\ ChatOnly /\ UNCHANGED lastEvent

\* useChat.ts 356-362: the catch of sendMessage
CatchSend(s) ==
    /\ isLoading' = FALSE
    /\ error' = "Connection error"
    /\ sends' = [sends EXCEPT ![s].pc = "returned", ![s].settings = "none"]

\* useChat.ts 165-207, 320: POST /chat/stream settles, then the awaited
\* broadcast of the user's message; res is local to the call, so the two
\* awaits are one step of the hook
StreamFetched(s, outcome, broadcast) ==
    /\ sends[s].pc = "stream"
    /\ IF outcome = "reject" \/ broadcast = "throws"
       THEN CatchSend(s)
       ELSE /\ sends' = [sends EXCEPT
                           ![s].pc = IF outcome = "ok" THEN "reading"
                                     ELSE "fallback",
                           ![s].settings = "none"]
            /\ UNCHANGED <<isLoading, error>>
    /\ channels' = IF outcome = "reject" THEN channels
                   ELSE WithChannel(channels, "chat", sends[s].userId,
                                    "sendMessage", FALSE)     \* 196
    /\ UNCHANGED <<userId, messages, historyLoaded, historyLoading, isTypingRef,
                   history, more, rtCount>>
    /\ ChatFrame /\ UNCHANGED <<pageVars, lastEvent>>

(***************************************************************************)
(* Typing playback                                                         *)
(***************************************************************************)
\* the id of paragraph k's message (useChat.ts 254, 285-287)
ParagraphId(id, paragraphs, k) ==
    IF Len(paragraphs) > 1 THEN SubId(id, k) ELSE id

\* useChat.ts 247-266: the placeholder gives way to one empty message per
\* paragraph; every other message is kept
RECURSIVE ReplacePlaceholder(_, _, _)
ReplacePlaceholder(msgs, id, paragraphs) ==
    IF msgs = << >> THEN << >>
    ELSE (IF Head(msgs).id = id
          THEN [k \in 1..Len(paragraphs) |->
                  Msg(ParagraphId(id, paragraphs, k - 1), "assistant", Empty, "ai")]
          ELSE <<Head(msgs)>>)
         \o ReplacePlaceholder(Tail(msgs), id, paragraphs)

\* useChat.ts 290-295
SetContent(msgs, id, text) ==
    [i \in 1..Len(msgs) |->
        IF msgs[i].id = id THEN [msgs[i] EXCEPT !.content = text] ELSE msgs[i]]

Min(a, b) == IF a < b THEN a ELSE b

\* useChat.ts 275-307: one run of typeCharWithCallback, with inc the value of
\* Math.floor(Math.random() * 2) + 1.  Gives the store, the closure's
\* indices, whether a setTimeout is pending and whether finishTyping ran.
TypeCharWithCallback(msgs, id, paragraphs, paragraphIndex, charIndex, inc) ==
    IF paragraphIndex >= Len(paragraphs)
    THEN [messages |-> msgs, paragraphIndex |-> paragraphIndex,
          charIndex |-> charIndex, timer |-> FALSE, finished |-> TRUE]
    ELSE LET currentParagraph == paragraphs[paragraphIndex + 1]
             newIndex == Min(charIndex + inc, Len(currentParagraph))
             currentMsgId == ParagraphId(id, paragraphs, paragraphIndex)
             newMessages ==
                 SetContent(msgs, currentMsgId, Substring0(currentParagraph, newIndex))
         IN  IF newIndex < Len(currentParagraph)
             THEN [messages |-> newMessages, paragraphIndex |-> paragraphIndex,
                   charIndex |-> newIndex, timer |-> TRUE, finished |-> FALSE]
             ELSE IF paragraphIndex < Len(paragraphs) - 1
             THEN [messages |-> newMessages, paragraphIndex |-> paragraphIndex + 1,
                   charIndex |-> 0, timer |-> TRUE, finished |-> FALSE]
             ELSE [messages |-> newMessages, paragraphIndex |-> paragraphIndex,
                   charIndex |-> newIndex, timer |-> FALSE, finished |-> TRUE]

\* useChat.ts 271-273
FinishTypingStuck(flag) == flag
FinishTyping(flag) == FALSE

\* useChat.ts 268-269
MarkTyping(flag) == TRUE

\* the closure after a run of typeCharWithCallback
AfterTypeChar(s, paragraphs, r) ==
    [sends EXCEPT ![s].paragraphs = paragraphs,
                  ![s].paragraphIndex = r.paragraphIndex,
                  ![s].charIndex = r.charIndex,
                  ![s].playback = IF r.timer THEN "timer" ELSE "over"]

\* useChat.ts 213-309: the reader delivers the terminal event {done: true,
\* content}; the whole handler, with the first run of typeCharWithCallback
StreamDone(s, fullContent, inc) ==
    /\ sends[s].pc = "reading"
    /\ sends[s].playback = "none"
    /\ IF ~sends[s].ai /\ fullContent = Empty
       THEN \* 230-232: continue
            /\ sends' = [sends EXCEPT ![s].playback = "over"]
            /\ UNCHANGED <<messages, isLoading, isTypingRef>>
       ELSE LET paragraphs == Paragraphs(fullContent)
                replaced == ReplacePlaceholder(messages, AssistantMessageId(s),
                                               paragraphs)
                r == TypeCharWithCallback(replaced, AssistantMessageId(s),
                                          paragraphs, 0, 0, inc)
            IN  /\ isLoading' = FALSE
                /\ messages' = r.messages
                /\ isTypingRef' = IF r.finished
                                  THEN FinishTyping(MarkTyping(isTypingRef))
                                  ELSE MarkTyping(isTypingRef)
                /\ sends' = AfterTypeChar(s, paragraphs, r)
    /\ UNCHANGED <<userId, error, historyLoaded, historyLoading, history, more,
                   rtCount>>
    /\ ChatOnly /\ UNCHANGED lastEvent

\* useChat.ts 298, 303: a pending setTimeout(typeCharWithCallback) fires
TypeCharTimer(s, inc) ==
    /\ sends[s].playback = "timer"
    /\ LET r == TypeCharWithCallback(messages, AssistantMessageId(s),
                                     sends[s].paragraphs, sends[s].paragraphIndex,
                                     sends[s].charIndex, inc)
       IN  /\ messages' = r.messages
           /\ isTypingRef' = IF r.finished THEN FinishTyping(isTypingRef)
                             ELSE isTypingRef
           /\ sends' = AfterTypeChar(s, sends[s].paragraphs, r)
    /\ UNCHANGED <<userId, isLoading, error, historyLoaded, historyLoading,
                   history, more, rtCount>>
    /\ ChatOnly /\ UNCHANGED lastEvent

\* useChat.ts 213-214, 317-319: the stream ends; the finally block
StreamEnd(s) ==
    /\ sends[s].pc = "reading"
    /\ isLoading' = FALSE
    /\ sends' = [sends EXCEPT ![s].pc = "returned", ![s].settings = "none"]
    /\ UNCHANGED <<userId, messages, error, historyLoaded, historyLoading,
                   isTypingRef, history, more, rtCount>>
    /\ ChatOnly /\ UNCHANGED lastEvent

\* useChat.ts 213, 317-319, 356-362: reader.read() rejects; finally, then catch
StreamError(s) ==
    /\ sends[s].pc = "reading"
    /\ CatchSend(s)
    /\ UNCHANGED <<userId, messages, historyLoaded, historyLoading, isTypingRef,
                   history, more, rtCount>>
    /\ ChatOnly /\ UNCHANGED lastEvent

\* useChat.ts 320-355: the synchronous fallback settles
Fallback(s, outcome) ==
    /\ sends[s].pc = "fallback"
    /\ CASE outcome = "response" ->
              /\ messages' = Append(messages,
                     Msg(AssistantMessageId(s), "assistant", FallbackResponse,
                         NoSource))
              /\ isLoading' = FALSE
              /\ sends' = [sends EXCEPT ![s].pc = "returned", ![s].settings = "none"]
              /\ UNCHANGED error
         [] outcome = "no-response" ->
              /\ sends' = [sends EXCEPT ![s].pc = "returned", ![s].settings = "none"]
              /\ UNCHANGED <<messages, isLoading, error>>
         [] outcome \in {"detail", "no-detail"} ->
              /\ isLoading' = FALSE
              /\ error' = IF outcome = "detail" THEN "detail"
                          ELSE "Failed to send message"
              /\ sends' = [sends EXCEPT ![s].pc = "returned", ![s].settings = "none"]
              /\ UNCHANGED messages
         [] outcome = "reject" ->
              /\ CatchSend(s)
              /\ UNCHANGED messages
    /\ UNCHANGED <<userId, historyLoaded, historyLoading, isTypingRef, history,
                   more, rtCount>>
    /\ ChatOnly /\ UNCHANGED lastEvent

(***************************************************************************)
(* Realtime bridge of useChat                                              *)
(***************************************************************************)
\* the subscription effect returns early for no id and for a guest id
\* (useChat.ts 397-398)
CanSubscribe(u) == u # NoUser /\ ~IsGuest(u)

\* the hook's subscription effect has run and its channel is live
Subscribed == hookChannel # NoUser

\* useChat.ts 387-395: sendTyping gets a channel of the conversation to
\* broadcast the typing event
SendTyping(chs) ==
    IF ~CanSubscribe(userId) THEN chs                             \* 388
    ELSE WithChannel(chs, "chat", userId, "sendTyping", FALSE)    \* 390

\* crypto.randomUUID() in a realtime handler: the i-th of the n-th event
RealtimeId(n, i) == <<"realtime", n, i>>

\* useChat.ts 424-436
ParsedMessages(dbMessages, n) ==
    [i \in 1..Len(dbMessages) |->
        Msg(IF dbMessages[i].id # NoId THEN dbMessages[i].id ELSE RealtimeId(n, i),
            FrontendRole(dbMessages[i].role),
            dbMessages[i].content,
            dbMessages[i].source)]

\* useChat.ts 414: the guard on the playback flag
TypingGuard(flag) == flag

\* useChat.ts 411-441: a conversations UPDATE arrives
PostgresChanges(payload) ==
    /\ Subscribed
    /\ CanStart
    /\ rtCount' = rtCount + 1
    /\ messages' =
          IF TypingGuard(isTypingRef) THEN messages
          ELSE IF isLoading THEN messages
          ELSE IF payload.isArray
               THEN ParsedMessages(payload.messages, rtCount + 1)
               ELSE messages
    /\ lastEvent' = [lastEvent EXCEPT !.chat =
                        Event("postgres_changes", payload.isArray,
                              payload.messages)]
    /\ UNCHANGED <<userId, isLoading, error, historyLoaded, historyLoading,
                   isTypingRef, history, sends, more>>
    /\ ChatOnly

\* useChat.ts 464: which broadcasts are appended
AppendsBroadcast(source) == source = "admin" \/ source = "system"

\* useChat.ts 456-478: a new_message broadcast arrives
NewMessage(msg) ==
    /\ Subscribed
    /\ CanStart
    /\ rtCount' = rtCount + 1
    /\ messages' =
          IF AppendsBroadcast(msg.source)
          THEN Append(messages,
                      Msg(RealtimeId(rtCount + 1, 0), FrontendRole(msg.role),
                          msg.content, msg.source))
          ELSE messages
    /\ lastEvent' = [lastEvent EXCEPT !.chat =
                        Event("new_message", FALSE, <<msg>>)]
    /\ UNCHANGED <<userId, isLoading, error, historyLoaded, historyLoading,
                   isTypingRef, history, sends, more>>
    /\ ChatOnly

(***************************************************************************)
(* History loader                                                          *)
(***************************************************************************)
RECURSIVE TrimStart(_)
TrimStart(t) ==
    IF t # Empty /\ Head(t) \in Whitespace THEN TrimStart(Tail(t)) ELSE t

RECURSIVE TrimEnd(_)
TrimEnd(t) ==
    IF t # Empty /\ t[Len(t)] \in Whitespace
    THEN TrimEnd(SubSeq(t, 1, Len(t) - 1)) ELSE t

\* String.prototype.trim()
Trim(t) == TrimEnd(TrimStart(t))

HistoryId(idx) == <<"history", idx, NoSub>>

\* useChat.ts 61-67: the paragraphs of a history message with a break, each
\* trimmed
HistoryParagraphs(content) ==
    LET paragraphs == SelectSeq(SplitNN(content), NotBlank) IN
    [k \in 1..Len(paragraphs) |-> Trim(paragraphs[k])]

\* useChat.ts 61-81: the contents of the entries of an AI message of the
\* history
HistoryContents(content) ==
    IF content # Empty /\ IncludesNN(content) THEN HistoryParagraphs(content)
    ELSE <<content>>

\* useChat.ts 54-81: one backend message, at index idx of the response
HistoryEntry(msg, idx) ==
    IF msg.role = "ai" /\ msg.content # Empty /\ IncludesNN(msg.content)
    THEN LET paragraphs == HistoryParagraphs(msg.content) IN
         [k \in 1..Len(paragraphs) |->
            Msg(SubId(HistoryId(idx), k - 1), "assistant", paragraphs[k],
                IF msg.source = NoSource THEN "ai" ELSE msg.source)]
    ELSE <<Msg(HistoryId(idx), FrontendRole(msg.role), msg.content, msg.source)>>

RECURSIVE HistoryFrom(_, _)
HistoryFrom(raw, idx) ==
    IF raw = << >> THEN << >>
    ELSE HistoryEntry(Head(raw), idx) \o HistoryFrom(Tail(raw), idx + 1)

HistoryMessages(raw) == HistoryFrom(raw, 0)

\* useChat.ts 39-42, 93-99: the effect runs on mount
HistoryEffect ==
    /\ history = "mount"
    /\ IF userId # "" /\ ~IsGuest(userId)
       THEN /\ history' = "fetching"
            /\ historyLoading' = TRUE
            /\ UNCHANGED historyLoaded
       ELSE /\ history' = "done"
            /\ historyLoaded' = TRUE
            /\ historyLoading' = FALSE
    /\ UNCHANGED <<userId, messages, isLoading, error, isTypingRef, sends, more,
                   rtCount>>
    /\ ChatOnly /\ UNCHANGED lastEvent

\* useChat.ts 47-50: response.ok and data.messages is an array
HasMessagesArrayAlways(outcome) == TRUE
HasMessagesArray(outcome) == outcome.kind = "page"

\* useChat.ts 44-90: the history fetch settles
HistoryLoaded(outcome) ==
    /\ history = "fetching"
    /\ history' = "done"
    /\ messages' = IF HasMessagesArray(outcome)
                   THEN HistoryMessages(outcome.messages)
                   ELSE messages
    /\ historyLoaded' = TRUE
    /\ historyLoading' = FALSE
    /\ lastEvent' = [lastEvent EXCEPT !.chat =
                        Event("history", outcome.kind = "page", << >>)]
    /\ UNCHANGED <<userId, isLoading, error, isTypingRef, sends, more, rtCount>>
    /\ ChatOnly

(***************************************************************************)
(* loadMoreMessages                                                        *)
(***************************************************************************)
\* useChat.ts 492-493: the offset of the request
OffsetNextPage(msgs, l) == (l - 1) * 20
Offset(msgs, l) == Len(msgs)

\* useChat.ts 487-493: the call, up to the await of the fetch
LoadMoreMessages(l) ==
    /\ mounted
    /\ CanStart
    /\ more[l].pc = "idle"
    /\ l > 1 => more[l - 1].pc # "idle"
    /\ IF userId = ""
       THEN more' = [more EXCEPT ![l].pc = "returned", ![l].ret = "false"]
       ELSE more' = [more EXCEPT ![l].pc = "fetching",
                                 ![l].currentCount = Offset(messages, l)]
    /\ UNCHANGED <<userId, messages, isLoading, error, historyLoaded,
                   historyLoading, isTypingRef, history, sends, rtCount>>
    /\ ChatOnly /\ UNCHANGED lastEvent

\* useChat.ts 497-510
OldMessages(raw, currentCount, dateNow) ==
    [i \in 1..Len(raw) |->
        Msg(<<"history", currentCount + (i - 1), dateNow>>, FrontendRole(raw[i].role),
            raw[i].content, raw[i].source)]

\* useChat.ts 512-515
PrependAppends(old, msgs) == msgs \o old
Prepend(old, msgs) == old \o msgs

\* useChat.ts 494-522: the fetch settles
LoadMoreSettled(l, outcome, dateNow) ==
    /\ more[l].pc = "fetching"
    /\ IF outcome.kind = "page" /\ Len(outcome.messages) > 0
       THEN /\ messages' = Prepend(OldMessages(outcome.messages,
                                               more[l].currentCount, dateNow),
                                   messages)
            /\ more' = [more EXCEPT ![l].pc = "returned", ![l].ret = "true"]
       ELSE /\ more' = [more EXCEPT ![l].pc = "returned", ![l].ret = "false"]
            /\ UNCHANGED messages
    /\ UNCHANGED <<userId, isLoading, error, historyLoaded, historyLoading,
                   isTypingRef, history, sends, rtCount>>
    /\ ChatOnly /\ UNCHANGED lastEvent

(***************************************************************************)
(* Admin chat panel                                                        *)
(***************************************************************************)
AdminUsers == {"u1", "u2"}

\* selectedUserChat: null, or {userId, messages}
NoChat == [open |-> FALSE, userId |-> NoUser, messages |-> << >>]
OpenChat(u, msgs) == [open |-> TRUE, userId |-> u, messages |-> msgs]

\* selectedUserChat?.userId
SelectedUserId == IF selectedUserChat.open THEN selectedUserChat.userId ELSE NoUser

\* limit=10 of the panel's history request (Admin.tsx 603, 605, 650)
AdminPageSize == 10

\* GET /admin/chats/:userId: a failure, or a page of messages
AdminFetchOutcomes ==
    { [ok |-> FALSE, messages |-> << >>],
      [ok |-> TRUE, messages |-> << >>],
      [ok |-> TRUE, messages |-> <<RawHuman, RawAi>>],
      [ok |-> TRUE, messages |-> [i \in 1..AdminPageSize |-> RawHuman]] }

IdleFetch == [pc |-> "idle", userId |-> NoUser, offset |-> 0]

\* the pending timer a ref names, if any, is cancelled
ClearTimeout(pending, side, ref) == pending \ {[side |-> side, due |-> ref]}

AdminInit ==
    /\ selectedUserChat = NoChat
    /\ chatOffset = 0
    /\ hasMoreMessages = TRUE
    /\ isLoadingHistory = FALSE
    /\ adminChannel = NoUser
    /\ fetches = [f \in Fetches |-> IdleFetch]
    /\ adminRtCount = 0

\* an action of the panel leaves the hook and the clock alone
AdminFrame ==
    UNCHANGED <<chatVars, pageVars, mounted, hookChannel, split, now,
                isPartnerTyping,
                typingTimeoutRef, isUserTyping, adminTypingTimeoutRef,
                typingEvents>>
AdminOnly == AdminFrame /\ UNCHANGED channels

\* Admin.tsx 595-603: fetchUserChat(userId), up to the await (a click on a
\* user of the list, or the refresh after an admin message)
FetchUserChat(f, u) ==
    /\ CanStart
    /\ fetches[f].pc = "idle"
    /\ f > 1 => fetches[f - 1].pc # "idle"
    /\ chatOffset' = 0
    /\ hasMoreMessages' = TRUE
    /\ isLoadingHistory' = TRUE
    /\ fetches' = [fetches EXCEPT ![f] = [pc |-> "fetching", userId |-> u,
                                          offset |-> 0]]
    /\ UNCHANGED <<selectedUserChat, adminChannel, adminRtCount, timers>>
    /\ AdminOnly /\ UNCHANGED lastEvent

\* Admin.tsx 639-653: loadMoreMessages, up to the await in fetchUserChat
AdminLoadMoreMessages(f) ==
    /\ CanStart
    /\ fetches[f].pc = "idle"
    /\ f > 1 => fetches[f - 1].pc # "idle"
    /\ selectedUserChat.open /\ ~isLoadingHistory /\ hasMoreMessages
    /\ LET newOffset == chatOffset + AdminPageSize IN
       /\ chatOffset' = newOffset
       /\ fetches' = [fetches EXCEPT ![f] = [pc |-> "fetching",
                                             userId |-> selectedUserChat.userId,
                                             offset |-> newOffset]]
    /\ isLoadingHistory' = TRUE
    /\ UNCHANGED <<selectedUserChat, hasMoreMessages, adminChannel, adminRtCount,
                   timers>>
    /\ AdminOnly /\ UNCHANGED lastEvent

\* Admin.tsx 603-624: the request of fetchUserChat settles
FetchSettled(f, outcome) ==
    /\ fetches[f].pc = "fetching"
    /\ fetches' = [fetches EXCEPT ![f].pc = "returned"]
    /\ IF outcome.ok
       THEN /\ hasMoreMessages' = IF Len(outcome.messages) < AdminPageSize
                                  THEN FALSE ELSE hasMoreMessages
            /\ selectedUserChat' =
                  IF fetches[f].offset = 0
                  THEN OpenChat(fetches[f].userId, outcome.messages)
                  ELSE IF ~selectedUserChat.open THEN NoChat
                  ELSE [selectedUserChat EXCEPT
                          !.messages = outcome.messages \o @]
       ELSE UNCHANGED <<hasMoreMessages, selectedUserChat>>
    /\ isLoadingHistory' = FALSE
    /\ UNCHANGED <<chatOffset, adminChannel, adminRtCount, timers>>
    /\ AdminOnly /\ UNCHANGED lastEvent

\* Admin.tsx 1265: the panel is closed
CloseChat ==
    /\ selectedUserChat.open
    /\ selectedUserChat' = NoChat
    /\ UNCHANGED <<chatOffset, hasMoreMessages, isLoadingHistory, adminChannel,
                   fetches, adminRtCount, timers>>
    /\ AdminOnly /\ UNCHANGED lastEvent

\* Admin.tsx 230-234, 299-305: selectedUserChat?.userId changed; the cleanup
\* of the previous subscription, then the new one
SubscriptionEffect ==
    /\ adminChannel # SelectedUserId
    /\ adminChannel' = SelectedUserId
    /\ timers' = IF adminChannel # NoUser
                 THEN ClearTimeout(timers, "admin", adminTypingTimeoutRef)
                 ELSE timers
    /\ channels' =
         LET removed == IF adminChannel = NoUser THEN channels
                        ELSE RemoveChannel(channels, "admin", adminChannel,
                                           "effect")            \* 302
         IN IF SelectedUserId = NoUser THEN removed              \* 231
            ELSE WithChannel(removed, "admin", SelectedUserId, "effect",
                             TRUE)                               \* 233, 299
    /\ UNCHANGED <<selectedUserChat, chatOffset, hasMoreMessages,
                   isLoadingHistory, fetches, adminRtCount>>
    /\ AdminFrame /\ UNCHANGED lastEvent

\* Admin.tsx 245-257: a conversations UPDATE arrives on the panel's channel
AdminPostgresChanges(payload) ==
    /\ CanStart
    /\ adminChannel # NoUser
    /\ adminRtCount' = adminRtCount + 1
    /\ selectedUserChat' =
          IF payload.isArray
          THEN IF ~selectedUserChat.open \/ selectedUserChat.userId # adminChannel
               THEN selectedUserChat
               ELSE [selectedUserChat EXCEPT !.messages = payload.messages]
          ELSE selectedUserChat
    /\ lastEvent' = [lastEvent EXCEPT !.admin =
                        Event("postgres_changes", payload.isArray,
                              payload.messages)]
    /\ UNCHANGED <<chatOffset, hasMoreMessages, isLoadingHistory, adminChannel,
                   fetches, timers>>
    /\ AdminOnly

\* Admin.tsx 276: the panel ignores its own messages
OwnMessageNever(source) == FALSE
OwnMessage(source) == source = "admin"

\* Admin.tsx 282-285: the broadcast repeats the last message of the store
RepeatsAnyMessage(msgs, msg) ==
    \E i \in 1..Len(msgs) :
        msgs[i].content = msg.content /\ msgs[i].source = msg.source
RepeatsLastMessage(msgs, msg) ==
    /\ Len(msgs) > 0
    /\ msgs[Len(msgs)].content = msg.content
    /\ msgs[Len(msgs)].source = msg.source

\* Admin.tsx 270-298: a new_message broadcast arrives on the panel's channel
AdminNewMessage(msg) ==
    /\ CanStart
    /\ adminChannel # NoUser
    /\ adminRtCount' = adminRtCount + 1
    /\ selectedUserChat' =
          IF OwnMessage(msg.source) THEN selectedUserChat
          ELSE IF ~selectedUserChat.open \/ selectedUserChat.userId # adminChannel
               THEN selectedUserChat
          ELSE IF RepeatsLastMessage(selectedUserChat.messages, msg)
               THEN selectedUserChat
          ELSE [selectedUserChat EXCEPT
                  !.messages = Append(@, Raw(msg.role, msg.content, msg.source,
                                             NoId))]
    /\ lastEvent' = [lastEvent EXCEPT !.admin =
                        Event("new_message", FALSE, <<msg>>)]
    /\ UNCHANGED <<chatOffset, hasMoreMessages, isLoadingHistory, adminChannel,
                   fetches, timers>>
    /\ AdminOnly

(***************************************************************************)
(* Typing indicators                                                       *)
(***************************************************************************)
\* the quiet period of both handlers (useChat.ts 452, Admin.tsx 266)
TypingTimeoutMs == 3000

NoTimer == -1
TypingSources == {"user", "admin"}

TypingInit ==
    /\ now = 0
    /\ timers = {}
    /\ isPartnerTyping = FALSE
    /\ typingTimeoutRef = NoTimer
    /\ isUserTyping = FALSE
    /\ adminTypingTimeoutRef = NoTimer
    /\ typingEvents = [chat |-> {}, admin |-> {}]

\* setTimeout(..., 3000) after clearTimeout of the timer the ref names
RestartTimeoutKeepsOld(pending, side, ref) ==
    pending \cup {[side |-> side, due |-> now + TypingTimeoutMs]}
RestartTimeout(pending, side, ref) ==
    ClearTimeout(pending, side, ref)
        \cup {[side |-> side, due |-> now + TypingTimeoutMs]}

\* useChat.ts 443-455: a typing broadcast arrives at the hook
TypingBroadcast(source) ==
    /\ Subscribed
    /\ IF source = "admin"
       THEN /\ isPartnerTyping' = TRUE
            /\ timers' = RestartTimeout(timers, "chat", typingTimeoutRef)
            /\ typingTimeoutRef' = now + TypingTimeoutMs
            /\ typingEvents' = [typingEvents EXCEPT !.chat = @ \cup {now}]
       ELSE UNCHANGED <<isPartnerTyping, timers, typingTimeoutRef, typingEvents>>
    /\ UNCHANGED <<chatVars, adminVars, pageVars, channelVars, split, lastEvent, now, isUserTyping,
                   adminTypingTimeoutRef>>

\* Admin.tsx 259-269: a typing broadcast arrives at the panel
AdminTypingBroadcast(source) ==
    /\ adminChannel # NoUser
    /\ IF source = "user"
       THEN /\ isUserTyping' = TRUE
            /\ timers' = RestartTimeout(timers, "admin", adminTypingTimeoutRef)
            /\ adminTypingTimeoutRef' = now + TypingTimeoutMs
            /\ typingEvents' = [typingEvents EXCEPT !.admin = @ \cup {now}]
       ELSE UNCHANGED <<isUserTyping, timers, adminTypingTimeoutRef,
                        typingEvents>>
    /\ UNCHANGED <<chatVars, adminVars, pageVars, channelVars, split, lastEvent, now, isPartnerTyping,
                   typingTimeoutRef>>

\* useChat.ts 452, Admin.tsx 266: a timer that is due runs its callback
TypingTimeout(t) ==
    /\ t \in timers
    /\ t.due <= now
    /\ timers' = timers \ {t}
    /\ IF t.side = "chat"
       THEN isPartnerTyping' = FALSE /\ UNCHANGED isUserTyping
       ELSE isUserTyping' = FALSE /\ UNCHANGED isPartnerTyping
    /\ UNCHANGED <<chatVars, adminVars, pageVars, channelVars, split, lastEvent, now, typingTimeoutRef,
                   adminTypingTimeoutRef, typingEvents>>

\* the earliest of now + TickMs and the pending timers' due times
NextInstant ==
    LET dues == {t.due : t \in timers} \cup {now + TickMs}
    IN  CHOOSE d \in dues : \A e \in dues : d <= e

\* time passes, up to the next timer: a due timer runs before time moves on
Tick ==
    /\ now < MaxTime
    /\ \A t \in timers : t.due > now
    /\ now' = NextInstant
    /\ UNCHANGED <<chatVars, adminVars, pageVars, channelVars, split, lastEvent, timers, isPartnerTyping,
                   typingTimeoutRef, isUserTyping, adminTypingTimeoutRef,
                   typingEvents>>

(***************************************************************************)
(* Subscription of useChat                                                 *)
(***************************************************************************)
\* useChat.ts 481-484: the cleanup of the subscription effect
CleanupChannels(chs) ==
    IF hookChannel = NoUser THEN chs                              \* 398
    ELSE RemoveChannel(chs, "chat", hookChannel, "effect")        \* 482

CleanupTimers(pending) ==
    IF hookChannel = NoUser THEN pending
    ELSE ClearTimeout(pending, "chat", typingTimeoutRef)          \* 483

\* useChat.ts 397-485, deps [userId]: the userId prop changes; after the
\* render the cleanup of the previous run and then the effect for the new id
\* run.  The history effect (39-99) runs again as well: with the history
\* loaded it returns at line 41 or sets the flags it finds set.  The id
\* changes once the history request has settled.
UserIdChanged(u) ==
    /\ mounted
    /\ history = "done"
    /\ u # userId
    /\ userId' = u
    /\ hookChannel' = IF CanSubscribe(u) THEN u ELSE NoUser
    /\ channels' =
         IF CanSubscribe(u)
         THEN WithChannel(CleanupChannels(channels), "chat", u, "effect", TRUE)
         ELSE CleanupChannels(channels)
    /\ timers' = CleanupTimers(timers)
    /\ UNCHANGED <<messages, isLoading, error, historyLoaded, historyLoading,
                   isTypingRef, history, sends, more, rtCount>>
    /\ UNCHANGED <<adminVars, pageVars, mounted, split, lastEvent, now,
                   isPartnerTyping, typingTimeoutRef, isUserTyping,
                   adminTypingTimeoutRef, typingEvents>>

\* the component that uses the hook unmounts: the cleanup of the effect runs
\* (481-484); the calls of sendMessage in flight go on
Unmount ==
    /\ mounted
    /\ mounted' = FALSE
    /\ hookChannel' = NoUser
    /\ channels' = CleanupChannels(channels)
    /\ timers' = CleanupTimers(timers)
    /\ UNCHANGED <<chatVars, adminVars, pageVars, split, lastEvent, now,
                   isPartnerTyping, typingTimeoutRef, isUserTyping,
                   adminTypingTimeoutRef, typingEvents>>

\* after the first run of the subscription effects: the hook's channel for
\* an id that is not a guest's, the panel's for the open conversation
ChannelInit ==
    /\ mounted = TRUE
    /\ hookChannel = (IF CanSubscribe(userId) THEN userId ELSE NoUser)
    /\ channels =
         {Channel({}, "chat", u, "effect", TRUE) : u \in {hookChannel} \ {NoUser}}
         \cup {Channel({}, "admin", u, "effect", TRUE) :
                 u \in {adminChannel} \ {NoUser}}

(***************************************************************************)
(* Paragraph splitting on its own                                          *)
(***************************************************************************)
\* the texts split: up to MaxTextLen characters of a letter, a space and a
\* newline
MaxTextLen == 4
Texts == UNION {[1..n -> {"a", " ", NL}] : n \in 0..MaxTextLen}

\* Array.prototype.join('\n\n')
RECURSIVE JoinNN(_)
JoinNN(segments) ==
    IF segments = << >> THEN Empty
    ELSE IF Len(segments) = 1 THEN segments[1]
    ELSE segments[1] \o <<NL, NL>> \o JoinNN(Tail(segments))

\* the splitting of the send pipeline (238-240) or of the history loader
\* (61-81)
SplitBy(user, text) ==
    IF user = "send" THEN Paragraphs(text) ELSE HistoryContents(text)

NoSplit(user, text) ==
    [pc |-> "text", user |-> user, text |-> text, paragraphs |-> << >>,
     again |-> << >>]

\* no text is split on its own in the runs of the hook and of the panel
SplitInit == split = NoSplit("send", Empty)

\* the text is split
SplitText ==
    /\ split.pc = "text"
    /\ split' = [split EXCEPT !.pc = "split",
                              !.paragraphs = SplitBy(split.user, split.text)]
    /\ UNCHANGED <<chatVars, adminVars, typingVars, pageVars, channelVars,
                   lastEvent>>

\* the paragraphs are joined with a break and split again
SplitAgain ==
    /\ split.pc = "split"
    /\ split' = [split EXCEPT !.pc = "again",
                              !.again = SplitBy(split.user,
                                                JoinNN(split.paragraphs))]
    /\ UNCHANGED <<chatVars, adminVars, typingVars, pageVars, channelVars,
                   lastEvent>>

(***************************************************************************)
(* Chat page: the controls over the hook                                   *)
(***************************************************************************)
\* part_000 790: the store length above which the page shows the load-more
\* button
LoadMoreThreshold == 10

\* a first history page long enough for the load-more button to show
LongHistory ==
    [kind |-> "page", messages |-> [i \in 1..(LoadMoreThreshold + 1) |-> RawHuman]]
PageHistoryOutcomes == HistoryOutcomes \cup {LongHistory}

\* part_000 789-801: the "Load previous messages" button is rendered
LoadMoreShown == Len(messages) > LoadMoreThreshold

\* part_000 670-699: a click on the button calls loadMoreMessages
HandleLoadMore(l) == LoadMoreShown /\ LoadMoreMessages(l)

\* part_000 629-630: the form's state
FormInit == input = Empty /\ attachments = 0

\* the texts typed into the textarea, and the bound on attached files
Inputs == {Empty, <<" ">>, <<"h", "i">>, <<"h", "i", " ">>}
MaxAttachments == 1

\* part_000 983-986: the textarea's onChange
SetInput(text) ==
    /\ mounted
    /\ ~(isLoading \/ historyLoading)          \* 997: disabled
    /\ input # text
    /\ input' = text
    /\ channels' = SendTyping(channels)                          \* 985
    /\ UNCHANGED <<chatVars, attachments, lastEvent>>
    /\ ChatFrame

\* part_000 717-725: a file is attached
AddAttachment ==
    /\ attachments < MaxAttachments
    /\ attachments' = attachments + 1
    /\ UNCHANGED <<chatVars, input, channels, lastEvent>>
    /\ ChatFrame

\* part_000 706: text or attachments
HasContentAlways(text, files) == TRUE
HasContent(text, files) == Trim(text) # Empty \/ files > 0

\* part_000 703-711, with the guards of the controls that submit the form
\* (990, 997, 1001): handleSubmit when it calls sendMessage.  A submit that
\* fails the test of line 706 changes nothing.
HandleSubmit(s, outcome) ==
    /\ ~historyLoading
    /\ HasContent(input, attachments) /\ ~isLoading
    /\ Sending(s, Trim(input), outcome)
    /\ input' = Empty
    /\ attachments' = 0
    /\ ChatFrame /\ UNCHANGED <<channels, lastEvent>>

\* Admin.tsx 1286-1298: the panel's "Load previous messages" button is
\* rendered
AdminLoadMoreShown == selectedUserChat.open /\ hasMoreMessages

(***************************************************************************)
(* Specifications                                                          *)
(***************************************************************************)
\* sendMessage, its playback and the realtime bridge of the hook
SendNext ==
    \/ \E s \in Sends, text \in UserTexts, o \in SettingsOutcomes :
          SendMessage(s, text, o)
    \/ \E s \in Sends, o \in StreamOutcomes, b \in BroadcastOutcomes :
          StreamFetched(s, o, b)
    \/ \E s \in Sends, c \in Responses, inc \in {1, 2} : StreamDone(s, c, inc)
    \/ \E s \in Sends, inc \in {1, 2} : TypeCharTimer(s, inc)
    \/ \E s \in Sends : StreamEnd(s)
    \/ \E s \in Sends : StreamError(s)
    \/ \E s \in Sends, o \in FallbackOutcomes : Fallback(s, o)
    \/ \E p \in DbPayloads : PostgresChanges(p)
    \/ \E m \in BroadcastMessages : NewMessage(m)

\* the history loader, pagination and the realtime bridge of the hook
MoreNext ==
    \/ HistoryEffect
    \/ \E o \in HistoryOutcomes : HistoryLoaded(o)
    \/ \E l \in LoadMores : LoadMoreMessages(l)
    \/ \E l \in LoadMores, o \in HistoryOutcomes, dateNow \in DateNows :
          LoadMoreSettled(l, o, dateNow)
    \/ \E p \in DbPayloads : PostgresChanges(p)
    \/ \E m \in BroadcastMessages : NewMessage(m)

\* the realtime bridges of both sides and the Admin chat panel
BridgeNext ==
    \/ \E p \in DbPayloads : PostgresChanges(p)
    \/ \E m \in BroadcastMessages : NewMessage(m)
    \/ \E f \in Fetches, u \in AdminUsers : FetchUserChat(f, u)
    \/ \E f \in Fetches : AdminLoadMoreMessages(f)
    \/ \E f \in Fetches, o \in AdminFetchOutcomes : FetchSettled(f, o)
    \/ CloseChat
    \/ SubscriptionEffect
    \/ \E p \in DbPayloads : AdminPostgresChanges(p)
    \/ \E m \in BroadcastMessages : AdminNewMessage(m)

\* the typing indicators of both sides, with the clock
TypingNext ==
    \/ \E source \in TypingSources : TypingBroadcast(source)
    \/ \E source \in TypingSources : AdminTypingBroadcast(source)
    \/ \E t \in timers : TypingTimeout(t)
    \/ Tick

\* the load-more controls of the Chat page and of the Admin chat panel
PageNext ==
    \/ HistoryEffect
    \/ \E o \in PageHistoryOutcomes : HistoryLoaded(o)
    \/ \E l \in LoadMores : HandleLoadMore(l)
    \/ \E l \in LoadMores, o \in HistoryOutcomes, dateNow \in DateNows :
          LoadMoreSettled(l, o, dateNow)
    \/ \E f \in Fetches, u \in AdminUsers : FetchUserChat(f, u)
    \/ \E f \in Fetches : AdminLoadMoreMessages(f)
    \/ \E f \in Fetches, o \in AdminFetchOutcomes : FetchSettled(f, o)

\* the Chat page's form over the send pipeline
SubmitNext ==
    \/ HistoryEffect
    \/ \E o \in HistoryOutcomes : HistoryLoaded(o)
    \/ \E text \in Inputs : SetInput(text)
    \/ AddAttachment
    \/ \E s \in Sends, o \in SettingsOutcomes : HandleSubmit(s, o)
    \/ \E s \in Sends, o \in StreamOutcomes, b \in BroadcastOutcomes :
          StreamFetched(s, o, b)
    \/ \E s \in Sends : StreamEnd(s)
    \/ \E s \in Sends, o \in FallbackOutcomes : Fallback(s, o)

\* the channels of both sides: the hook's subscription, the channels got to
\* broadcast, the panel's subscription; with requests that bring no
\* messages, settings that answer, the textarea filled and cleared
ChannelNext ==
    \/ HistoryEffect
    \/ \E o \in {h \in HistoryOutcomes : h.messages = << >>} : HistoryLoaded(o)
    \/ \E u \in UserIds : UserIdChanged(u)
    \/ Unmount
    \/ \E text \in {Empty, <<"h", "i">>} : SetInput(text)
    \/ \E s \in Sends, text \in UserTexts, o \in {"enabled", "disabled"} :
          SendMessage(s, text, o)
    \/ \E s \in Sends, o \in StreamOutcomes, b \in BroadcastOutcomes :
          StreamFetched(s, o, b)
    \/ \E f \in Fetches, u \in AdminUsers : FetchUserChat(f, u)
    \/ \E f \in Fetches, o \in {a \in AdminFetchOutcomes : a.messages = << >>} :
          FetchSettled(f, o)
    \/ CloseChat
    \/ SubscriptionEffect

\* the typing indicators while the subscriptions are torn down: the panel
\* closes its conversation, the hook's userId changes
TeardownNext ==
    \/ TypingNext
    \/ HistoryEffect
    \/ \E o \in {h \in HistoryOutcomes : h.messages = << >>} : HistoryLoaded(o)
    \/ \E u \in UserIds : UserIdChanged(u)
    \/ CloseChat
    \/ SubscriptionEffect

Init ==
    ChatInit /\ AdminInit /\ TypingInit /\ FormInit /\ ChannelInit /\ SplitInit

\* a text to split, drawn from Texts, for either user of the splitting
TextInit ==
    /\ ChatInit /\ AdminInit /\ TypingInit /\ FormInit /\ ChannelInit
    /\ \E user \in {"send", "history"}, text \in Texts :
          split = NoSplit(user, text)

SplitNext == SplitText \/ SplitAgain

\* the panel open on a conversation, its subscription made
PanelOpenInit ==
    /\ ChatInit
    /\ TypingInit
    /\ FormInit
    /\ \E u \in AdminUsers :
          /\ selectedUserChat = OpenChat(u, << >>)
          /\ adminChannel = u
    /\ chatOffset = 0
    /\ hasMoreMessages = FALSE
    /\ isLoadingHistory = FALSE
    /\ fetches = [f \in Fetches |-> IdleFetch]
    /\ adminRtCount = 0
    /\ ChannelInit
    /\ SplitInit

Next == SendNext
Spec == Init /\ [][Next]_vars

\* every pending setTimeout(typeCharWithCallback) fires
FairSpec ==
    Spec /\ \A s \in Sends : WF_vars(\E inc \in {1, 2} : TypeCharTimer(s, inc))

MoreSpec == Init /\ [][MoreNext]_vars
BridgeSpec == Init /\ [][BridgeNext]_vars
TypingSpec == PanelOpenInit /\ [][TypingNext]_vars
PageSpec == Init /\ [][PageNext]_vars
SubmitSpec == Init /\ [][SubmitNext]_vars
ChannelSpec == Init /\ [][ChannelNext]_vars
SplitSpec == TextInit /\ [][SplitNext]_vars
TeardownSpec == PanelOpenInit /\ [][TeardownNext]_vars

(***************************************************************************)
(* Claims                                                                  *)
(***************************************************************************)
\* a sendMessage call s appended to the store in this step
Appended(s) == sends[s].pc = "idle" /\ sends'[s].pc = "stream"

\* the hook's handler of a conversations UPDATE ran in this step
Reconciled ==
    /\ rtCount' = rtCount + 1
    /\ lastEvent'.chat.name = "postgres_changes"

\* the hook's, and the panel's, handler of a new_message broadcast ran
Broadcast == rtCount' = rtCount + 1 /\ lastEvent'.chat.name = "new_message"
AdminBroadcast ==
    adminRtCount' = adminRtCount + 1 /\ lastEvent'.admin.name = "new_message"

\* C1: no two messages of the hook's store have the same id, whatever the
\* sequence of sends (streamed or by the fallback), playback steps,
\* new_message broadcasts and row reconciliations.
NoDuplicateIds ==
    \A i, j \in 1..Len(messages) : i # j => messages[i].id # messages[j].id

\* C2: a row reconciliation that arrives while a typing playback is in
\* progress (a setTimeout(typeCharWithCallback) is pending) leaves the
\* store as it is, also when two playbacks overlap.
PlaybackInProgress == \E s \in Sends : sends[s].playback = "timer"
ReconciliationGuard ==
    [][(Reconciled /\ PlaybackInProgress) => messages' = messages]_vars

\* the role the frontend shows for a backend role
Shown(role) ==
    CASE role = "human" -> "user" [] role = "ai" -> "assistant" [] OTHER -> role

\* msgs is the backend array raw, entry by entry, with the roles normalized
IsNormalized(msgs, raw) ==
    /\ Len(msgs) = Len(raw)
    /\ \A i \in 1..Len(raw) :
          /\ msgs[i].role = Shown(raw[i].role)
          /\ msgs[i].content = raw[i].content
          /\ msgs[i].source = raw[i].source

\* C3: the playback flag is true once a terminal event has started a
\* playback that has steps left; it is false again eventually, for every
\* terminal event; and with the flag and isLoading false a row
\* reconciliation replaces the store with the server's array, roles
\* normalized.
TypingFlagSet ==
    [][\A s \in Sends :
          (sends[s].playback = "none" /\ sends'[s].playback = "timer")
             => isTypingRef']_vars
TypingFlagCleared == isTypingRef ~> ~isTypingRef
ReconciliationTakesEffect ==
    [][(Reconciled /\ ~isTypingRef /\ ~isLoading /\ lastEvent'.chat.isArray)
          => IsNormalized(messages', lastEvent'.chat.messages)]_vars
TypingFlagLifecycle ==
    TypingFlagSet /\ TypingFlagCleared /\ ReconciliationTakesEffect

\* a playback of several steps is over, the flag is false again and a
\* reconciliation has replaced the store
TypingFlagLifecycleWitness ==
    /\ \E s \in Sends : sends[s].playback = "over" /\ Len(sends[s].paragraphs) > 1
    /\ \E s \in Sends : sends[s].playback = "over" /\ ~sends[s].ai
    /\ ~isTypingRef
    /\ lastEvent.chat.name = "postgres_changes"
    /\ lastEvent.chat.messages # << >>
    /\ IsNormalized(messages, lastEvent.chat.messages)

\* C4: when the settings fetch rejects, is not a success or has no
\* ai_enabled, the send appends the user message and one empty assistant
\* placeholder, in that order, and isLoading becomes true.
FailedSettings == {"reject", "not-ok", "missing"}
FailOpenSettings ==
    [][\A s \in Sends :
          (Appended(s) /\ sends'[s].settings \in FailedSettings) =>
             LET n == Len(messages) IN
             /\ Len(messages') = n + 2
             /\ SubSeq(messages', 1, n) = messages
             /\ messages'[n + 1].role = "user"
             /\ messages'[n + 1].content = sends'[s].message
             /\ messages'[n + 2].role = "assistant"
             /\ messages'[n + 2].content = Empty
             /\ isLoading']_vars

FailOpenSettingsWitness ==
    \E s \in Sends :
        /\ sends[s].settings = "reject"
        /\ Len(messages) >= 2
        /\ messages[Len(messages) - 1].id = UserMessageId(s)
        /\ messages[Len(messages)].id = AssistantMessageId(s)
        /\ messages[Len(messages)].content = Empty
        /\ isLoading

\* C5: when the settings say automated responses are disabled, the send
\* appends the user message only and leaves isLoading false; no later step
\* of that send sets isLoading or adds an empty assistant message.
EmptyAssistants(msgs) ==
    Card({i \in 1..Len(msgs) : msgs[i].role = "assistant" /\ msgs[i].content = Empty})
DisabledAppendsUserOnly ==
    [][\A s \in Sends :
          (Appended(s) /\ sends'[s].settings = "disabled") =>
             LET n == Len(messages) IN
             /\ Len(messages') = n + 1
             /\ SubSeq(messages', 1, n) = messages
             /\ messages'[n + 1].role = "user"
             /\ messages'[n + 1].content = sends'[s].message
             /\ ~isLoading']_vars
DisabledNeverPending ==
    [][\A s \in Sends :
          (sends'[s] # sends[s] /\ ~sends'[s].ai) =>
             /\ isLoading' => isLoading
             /\ EmptyAssistants(messages') <= EmptyAssistants(messages)]_vars
DisabledNoPlaceholder ==
    DisabledAppendsUserOnly /\ DisabledNeverPending

\* a send with automated responses disabled got a terminal event with text
\* and its playback is over
DisabledNoPlaceholderWitness ==
    \E s \in Sends :
        /\ ~sends[s].ai
        /\ sends[s].playback = "over"
        /\ sends[s].paragraphs # << >>
        /\ \E i \in 1..Len(messages) : messages[i].id = UserMessageId(s)
        /\ \A i \in 1..Len(messages) : messages[i].id[1] # "send-assistant"

\* C6: a new_message broadcast with the local actor's own source is not
\* appended: source 'human' in the hook, source 'admin' in the panel.
EchoSuppression ==
    [][/\ (Broadcast /\ lastEvent'.chat.messages[1].source = "human")
             => messages' = messages
       /\ (AdminBroadcast /\ lastEvent'.admin.messages[1].source = "admin")
             => selectedUserChat' = selectedUserChat]_vars

\* the panel is open on its channel's conversation
PanelListening ==
    selectedUserChat.open /\ selectedUserChat.userId = adminChannel

\* both sides got their own message back; the panel's store does not end
\* with it
EchoSuppressionWitness ==
    /\ Subscribed
    /\ lastEvent.chat.name = "new_message"
    /\ lastEvent.chat.messages[1].source = "human"
    /\ lastEvent.admin.name = "new_message"
    /\ lastEvent.admin.messages[1].source = "admin"
    /\ PanelListening
    /\ selectedUserChat.messages # << >>
    /\ ~RepeatsLastMessage(selectedUserChat.messages, lastEvent.admin.messages[1])

LastTyping(times) == CHOOSE t \in times : \A u \in times : u <= t

\* a side's flag is true from a typing event of the counterpart until
\* TypingTimeoutMs after the last one, when its one pending timer runs
Debounced(flag, side, times) ==
    LET pending == {t \in timers : t.side = side} IN
    /\ (times # {} /\ now < LastTyping(times) + 3000) => flag
    /\ flag =>
          /\ times # {}
          /\ now <= LastTyping(times) + 3000
          /\ pending = {[side |-> side, due |-> LastTyping(times) + 3000]}
    /\ ~flag => pending = {}

\* C8: on both sides a typing broadcast of the counterpart sets the typing
\* flag and restarts the one 3000 ms timer; the flag is true until 3000 ms
\* after the last typing event and false from then on.
TypingDebounce ==
    /\ Debounced(isPartnerTyping, "chat", typingEvents.chat)
    /\ Debounced(isUserTyping, "admin", typingEvents.admin)

\* typing events at 0 and at 1000: at 3000 both flags are still true
TypingDebounceWitness ==
    /\ typingEvents.chat = {0, 1000}
    /\ typingEvents.admin = {0, 1000}
    /\ now = 3000
    /\ timers = {[side |-> "chat", due |-> 4000], [side |-> "admin", due |-> 4000]}
    /\ isPartnerTyping
    /\ isUserTyping

\* a call of loadMoreMessages reads the offset of its request
Called(l) == more[l].pc = "idle" /\ more'[l].pc = "fetching"
OffsetIsStoreLength ==
    [][\A l \in LoadMores : Called(l) => more'[l].currentCount = Len(messages)]_vars

\* the page a history response carries: none when the request failed
GotPage(outcome) == outcome.kind = "page" /\ Len(outcome.messages) > 0

\* C9: when the history request of loadMoreMessages fails or brings no
\* messages the store is unchanged and the call returns false; a next call
\* on the same store asks for the same offset again.
EmptyPageKeepsStore ==
    [][\A l \in LoadMores, o \in HistoryOutcomes, dateNow \in DateNows :
          (LoadMoreSettled(l, o, dateNow) /\ ~GotPage(o)) =>
             messages' = messages /\ more'[l].ret = "false"]_vars
SameOffsetAgain ==
    [][\A l \in LoadMores :
          (/\ l > 1
           /\ Called(l)
           /\ more[l - 1].ret = "false"
           /\ more[l - 1].currentCount = Len(messages)) =>
              more'[l].currentCount = more[l - 1].currentCount]_vars
LoadMoreEmpty == EmptyPageKeepsStore /\ OffsetIsStoreLength /\ SameOffsetAgain

\* two calls in a row on a store with messages returned false, both for the
\* same offset
LoadMoreEmptyWitness ==
    \E l \in LoadMores :
        /\ l + 1 \in LoadMores
        /\ more[l].ret = "false"
        /\ more[l + 1].ret = "false"
        /\ more[l].currentCount = more[l + 1].currentCount
        /\ more[l].currentCount = Len(messages)
        /\ Len(messages) > 0

\* C10: loadMoreMessages asks for the offset that is the store's length at
\* the call; a page with messages is put, its roles normalized, in front of
\* the store, and the call returns true.
PagePrepended ==
    [][\A l \in LoadMores, o \in HistoryOutcomes, dateNow \in DateNows :
          (LoadMoreSettled(l, o, dateNow) /\ GotPage(o)) =>
             LET k == Len(o.messages) IN
             /\ Len(messages') = k + Len(messages)
             /\ IsNormalized(SubSeq(messages', 1, k), o.messages)
             /\ SubSeq(messages', k + 1, Len(messages')) = messages
             /\ more'[l].ret = "true"]_vars
LoadMorePrepends == OffsetIsStoreLength /\ PagePrepended

\* a call on a store with messages returned true and the store now starts
\* with the page
LoadMorePrependsWitness ==
    \E l \in LoadMores :
        /\ more[l].ret = "true"
        /\ more[l].currentCount > 0
        /\ Len(messages) > more[l].currentCount
        /\ messages[1].id = <<"history", more[l].currentCount, 1000>>
        /\ messages[Len(messages)].id[1] # "history"
           \/ messages[Len(messages)].id[3] # 1000

\* a response with an empty page of messages
EmptyPage(outcome) == outcome.kind = "page" /\ outcome.messages = << >>

\* C11: once a load-more request has brought zero messages the load-more
\* control is disabled, on the Chat page and in the Admin chat panel.
PaginationDisables ==
    [][/\ \A l \in LoadMores, o \in HistoryOutcomes, dateNow \in DateNows :
             (LoadMoreSettled(l, o, dateNow) /\ EmptyPage(o)) => ~LoadMoreShown'
       /\ \A f \in Fetches, o \in AdminFetchOutcomes :
             (/\ FetchSettled(f, o)
              /\ fetches[f].offset > 0
              /\ o.ok
              /\ o.messages = << >>) => ~AdminLoadMoreShown']_vars

\* C12: for a guest conversation id the hook issues no history request, on
\* mount or through loadMoreMessages, never fills the store from history,
\* and the history-loading state ends with the mount effect.
GuestSkipsHistory ==
    [][IsGuest(userId) =>
          /\ history' # "fetching"
          /\ \A l \in LoadMores : more'[l].pc # "fetching"
          /\ \A i \in 1..Len(messages') : messages'[i].id[1] # "history"
          /\ (history = "mount" /\ history' # "mount")
                => (historyLoaded' /\ ~historyLoading')]_vars

\* the positions of the message with the given id
PositionsOf(msgs, id) == {i \in 1..Len(msgs) : msgs[i].id = id}

\* the paragraphs of a response: its non-blank segments between breaks
NonBlankParagraphs(text) == SelectSeq(SplitNN(text), NotBlank)

\* C13: the terminal event of a send with AI enabled replaces the
\* placeholder P, at its position, by one assistant message per non-blank
\* paragraph of the response, with ids P-0 .. P-(n-1) for n >= 2 and P for
\* one, all empty but for the first, which the playback has begun to fill;
\* every other message keeps its place and content.
PlaceholderSplit ==
    [][\A s \in Sends, c \in Responses, inc \in {1, 2} :
          (/\ StreamDone(s, c, inc)
           /\ sends[s].ai
           /\ PositionsOf(messages, AssistantMessageId(s)) # {}) =>
             LET P == AssistantMessageId(s)
                 n == Len(NonBlankParagraphs(c))
                 p == CHOOSE i \in PositionsOf(messages, P) : TRUE
             IN  /\ Len(messages') = Len(messages) - 1 + n
                 /\ \A i \in 1..(p - 1) : messages'[i] = messages[i]
                 /\ \A i \in (p + 1)..Len(messages) :
                       messages'[i - 1 + n] = messages[i]
                 /\ \A k \in 1..n :
                       /\ messages'[p - 1 + k].id =
                             (IF n >= 2 THEN SubId(P, k - 1) ELSE P)
                       /\ messages'[p - 1 + k].role = "assistant"
                       /\ k > 1 => messages'[p - 1 + k].content = Empty]_vars

\* text a is the beginning of text b
IsPrefix(a, b) == Len(a) <= Len(b) /\ SubSeq(b, 1, Len(a)) = a

\* the messages of paragraph k (from 1) of send s
ParagraphMessages(msgs, s, k) ==
    PositionsOf(msgs, ParagraphId(AssistantMessageId(s), sends[s].paragraphs, k - 1))

\* every paragraph message shows a prefix of its paragraph, a paragraph's
\* message has text only when the paragraph before it is shown in full, and
\* after the playback every paragraph message shows its paragraph
PlaybackShowsPrefixes ==
    \A s \in Sends :
        sends[s].playback # "none" =>
           \A k \in 1..Len(sends[s].paragraphs) :
              \A i \in ParagraphMessages(messages, s, k) :
                 /\ IsPrefix(messages[i].content, sends[s].paragraphs[k])
                 /\ sends[s].playback = "over"
                       => messages[i].content = sends[s].paragraphs[k]
                 /\ (k > 1 /\ messages[i].content # Empty) =>
                       \A j \in ParagraphMessages(messages, s, k - 1) :
                          messages[j].content = sends[s].paragraphs[k - 1]

\* no step makes the text of a paragraph message shorter
PlaybackNeverShrinks ==
    [][\A s \in Sends :
          sends[s].playback # "none" =>
             \A k \in 1..Len(sends[s].paragraphs) :
                \A i \in ParagraphMessages(messages, s, k) :
                   \A j \in ParagraphMessages(messages', s, k) :
                      Len(messages'[j].content) >= Len(messages[i].content)]_vars

\* a playback with steps left ends
PlaybackEnds ==
    \A s \in Sends : (sends[s].playback = "timer") ~> (sends[s].playback = "over")

\* C14: during typing playback every paragraph message shows a prefix of
\* its paragraph, its length never decreases, a paragraph stays empty until
\* the one before it is shown in full, and the playback ends with every
\* paragraph message showing its full paragraph.
PlaybackReveals ==
    []PlaybackShowsPrefixes /\ PlaybackNeverShrinks /\ PlaybackEnds

\* in the middle of a playback of two paragraphs: the first is shown in
\* full, the second is still empty
PlaybackRevealsWitness ==
    \E s \in Sends :
        /\ sends[s].playback = "timer"
        /\ Len(sends[s].paragraphs) = 2
        /\ sends[s].paragraphIndex = 1
        /\ \E i \in ParagraphMessages(messages, s, 1) :
              messages[i].content = sends[s].paragraphs[1]
        /\ \E i \in ParagraphMessages(messages, s, 2) : messages[i].content = Empty

\* the form holds no text and no attachment
EmptyForm == Trim(input) = Empty /\ attachments = 0

\* the form's submit controls are live and the model has a call left
CanSubmit ==
    /\ ~isLoading /\ ~historyLoading
    /\ CanStart
    /\ \E s \in Sends : sends[s].pc = "idle"

\* C15: a submit of a form with blank text and no attachment starts no
\* send: no request is made and the store is unchanged; a submit with blank
\* text and an attachment is accepted.
EmptySendRejected ==
    /\ [][\A s \in Sends :
             Appended(s) => (~EmptyForm /\ sends'[s].message = Trim(input))]_vars
    /\ [](EmptyForm => ~ENABLED (\E s \in Sends, o \in SettingsOutcomes :
                                   HandleSubmit(s, o)))
    /\ []((Trim(input) = Empty /\ attachments > 0 /\ CanSubmit)
             => ENABLED (\E s \in Sends, o \in SettingsOutcomes :
                            HandleSubmit(s, o)))

\* a send with empty text and an attachment is under way
EmptySendRejectedWitness ==
    \E s \in Sends :
        /\ sends[s].pc = "stream"
        /\ sends[s].message = Empty
        /\ \E i \in 1..Len(messages) :
              messages[i].id = UserMessageId(s) /\ messages[i].content = Empty
        /\ EmptyForm

\* the positions of the assistant messages of send s: its placeholder, its
\* paragraph messages, its fallback reply
AssistantMessagesOf(msgs, s) ==
    {i \in 1..Len(msgs) : msgs[i].id[1] = "send-assistant" /\ msgs[i].id[2] = s}

\* C16: when the stream request is not a success and the fallback answers
\* with a response text, the store afterwards holds exactly one assistant
\* message of this send, with the full text, and no empty one.
FallbackPopulatesPlaceholder ==
    [][\A s \in Sends :
          (Fallback(s, "response") /\ sends[s].ai) =>
             /\ Card(AssistantMessagesOf(messages', s)) = 1
             /\ \A i \in AssistantMessagesOf(messages', s) :
                   messages'[i].content = FallbackResponse]_vars

\* the outcomes of a failed fallback request
FailedFallbacks == {"detail", "no-detail", "reject"}

\* C17: when the stream request is not a success and the fallback fails as
\* well, error is set, isLoading is false and the empty placeholder of the
\* send is gone from the store.
FallbackFailureClearsPlaceholder ==
    [][\A s \in Sends, o \in FailedFallbacks :
          (Fallback(s, o) /\ sends[s].ai) =>
             /\ error' # NoError
             /\ ~isLoading'
             /\ \A i \in AssistantMessagesOf(messages', s) :
                   messages'[i].content # Empty]_vars

\* C18: with AI enabled, when the response stream fails while it is read,
\* or ends, before a terminal event came, the send goes on to the fallback
\* request, so that its placeholder does not stay empty.
StreamFailureFallsBack ==
    [][\A s \in Sends :
          (/\ StreamError(s) \/ StreamEnd(s)
           /\ sends[s].ai
           /\ sends[s].playback = "none") => sends'[s].pc = "fallback"]_vars

\* C19: a broadcast of the user's message that throws does not stop the
\* send: the stream's response is read on (or the fallback is tried) and
\* no error is set.
BroadcastBestEffort ==
    [][\A s \in Sends, o \in StreamOutcomes \ {"reject"} :
          StreamFetched(s, o, "throws") =>
             /\ sends'[s].pc = (IF o = "ok" THEN "reading" ELSE "fallback")
             /\ error' = error]_vars

\* the live subscriptions of a client, and the channels of a client that
\* are in its registry whatever the library does
Subscriptions(client) == {c \in ChannelsOf(channels, client) : c.subscribed}
Remaining(client) == {c \in ChannelsOf(channels, client) : c.own}

\* each side holds at most one subscription
OneSubscription == \A client \in Clients : Card(Subscriptions(client)) <= 1

\* the subscription is for the active conversation id: the hook's userId,
\* the panel's selected conversation once its effect has run
ForActiveId ==
    /\ \A c \in Subscriptions("chat") : c.topic = userId
    /\ ~ENABLED SubscriptionEffect =>
          \A c \in Subscriptions("admin") : c.topic = SelectedUserId
    /\ Subscribed => CanSubscribe(userId)

\* after the unmount no channel of the hook's client remains
NoneAfterUnmount == ~mounted => Remaining("chat") = {}

\* C20: each useChat instance and the Admin chat panel hold at most one
\* realtime subscription, for the active conversation id, and after the
\* unmount of the hook no channel made for its conversation by the
\* subscription effect, sendMessage or sendTyping remains.
ChannelDiscipline == OneSubscription /\ ForActiveId /\ NoneAfterUnmount

\* the positions of the empty assistant messages of a store
PendingPositions(msgs) ==
    {i \in 1..Len(msgs) : msgs[i].role = "assistant" /\ msgs[i].content = Empty}

\* C21: in every reachable state the hook's store holds at most one
\* assistant message with empty content, and when there is one it is the
\* last message of the store.
OnePendingAtTail ==
    /\ Card(PendingPositions(messages)) <= 1
    /\ \A i \in PendingPositions(messages) : i = Len(messages)

\* the messages of a store that another store holds as well
Kept(msgs, before) ==
    {i \in 1..Len(msgs) : \E j \in 1..Len(before) : msgs[i] = before[j]}

\* C22: the hook's store is not shared across conversation ids: when the
\* userId given to the hook changes, the store afterwards holds no message
\* that it held for the previous id, and the history of the new id is
\* requested when the new id has one.
StoreNotShared ==
    [][\A u \in UserIds :
          UserIdChanged(u) =>
             /\ Kept(messages', messages) = {}
             /\ CanSubscribe(u) => history' # "done"]_vars

\* the history request of the mount settled without a messages array
HistoryFailures == {o \in HistoryOutcomes : o.kind # "page"}

\* C23: when the history request of the mount rejects, answers with a
\* non-success status or with a body without a messages array, the load
\* writes nothing (an empty store stays empty, a null error stays null) and
\* the loading state still ends: historyLoaded true, historyLoading false.
HistoryFailureIsEmpty ==
    [][\A o \in HistoryFailures :
          HistoryLoaded(o) =>
             /\ messages' = messages
             /\ error' = error
             /\ historyLoaded' /\ ~historyLoading']_vars

\* a failed history request has left the empty conversation
HistoryFailureIsEmptyWitness ==
    /\ lastEvent.chat.name = "history" /\ ~lastEvent.chat.isArray
    /\ messages = << >>
    /\ error = NoError
    /\ historyLoaded /\ ~historyLoading

\* C24: paragraph splitting, as the send pipeline and the history loader do
\* it, is idempotent: the paragraphs of a text, joined with a double
\* newline and split again, are the same paragraphs, for every text.
SplitIdempotent == split.pc = "again" => split.again = split.paragraphs

\* the entries of a store for a backend message: the same content from the
\* same source
EntriesFor(msgs, msg) ==
    {i \in 1..Len(msgs) : msgs[i].content = msg.content /\ msgs[i].source = msg.source}

\* the last event of a side was a row reconciliation that carried msg, and
\* the store holds an entry for it
ReconciledBefore(event, msgs, msg) ==
    /\ event.name = "postgres_changes" /\ event.isArray
    /\ \E k \in 1..Len(event.messages) :
          /\ event.messages[k].content = msg.content
          /\ event.messages[k].source = msg.source
    /\ EntriesFor(msgs, msg) # {}

\* C25: a new_message broadcast for a message that a row reconciliation has
\* already put into the store adds no second entry for it, in the hook's
\* store and in the panel's, also when the reconciled array holds later
\* messages after it.
NoSecondEntry ==
    [][/\ LET msg == lastEvent'.chat.messages[1] IN
          (Broadcast /\ ReconciledBefore(lastEvent.chat, messages, msg)) =>
             Card(EntriesFor(messages', msg)) = Card(EntriesFor(messages, msg))
       /\ LET msg == lastEvent'.admin.messages[1] IN
          (/\ AdminBroadcast
           /\ selectedUserChat.open
           /\ ReconciledBefore(lastEvent.admin, selectedUserChat.messages, msg)) =>
             Card(EntriesFor(selectedUserChat'.messages, msg))
               = Card(EntriesFor(selectedUserChat.messages, msg))]_vars

\* the call s of sendMessage returns in this step, and no other call is in
\* flight
LastReturns(s) ==
    /\ sends[s].pc \notin {"idle", "returned"}
    /\ sends'[s].pc = "returned"
    /\ \A t \in Sends \ {s} : sends[t].pc \in {"idle", "returned"}

\* C26: every call of sendMessage leaves isLoading false, on every path: a
\* terminal event, a stream that ends without one, a read error, a fallback
\* with a response text, with an empty or missing one, a failed fallback and
\* a network error; when the last call in flight returns, isLoading is
\* false.
SendEndsLoading == [][\A s \in Sends : LastReturns(s) => ~isLoading']_vars

\* a timer of a side is pending for the time its ref names
TimerPending(side, ref) == \E t \in timers : t.side = side /\ t.due = ref

\* C27: whenever a counterpart-typing flag is true its expiry timer is
\* pending, so that the flag returns to false without further events, also
\* after the selected conversation changed or the subscription was torn
\* down while the flag was true (isPartnerTyping of the hook, isUserTyping
\* of the panel).
TypingFlagHasTimer ==
    /\ isPartnerTyping => TimerPending("chat", typingTimeoutRef)
    /\ isUserTyping => TimerPending("admin", adminTypingTimeoutRef)

\* the request f of fetchUserChat is stale: after it the admin opened
\* another conversation
Stale(f) ==
    \E g \in Fetches :
        /\ g > f
        /\ fetches[g].pc # "idle"
        /\ fetches[g].offset = 0
        /\ fetches[g].userId # fetches[f].userId

\* C28: in the Admin chat panel a response of fetchUserChat (first page or
\* load-more page) that arrives after the admin opened another conversation
\* is discarded: it writes nothing into the store, and the selected
\* conversation stays the one opened last.
StaleFetchDiscarded ==
    [][\A f \in Fetches, o \in AdminFetchOutcomes :
          (FetchSettled(f, o) /\ o.ok /\ Stale(f)) =>
             selectedUserChat' = selectedUserChat]_vars

\* the entries of a store that sendMessage appended: user messages and
\* placeholders
SentEntries(msgs) ==
    {i \in 1..Len(msgs) : msgs[i].id[1] \in {"send-user", "send-assistant"}}

\* C29: the history load of the mount removes no message that sendMessage
\* appended: when the history response arrives after a send has appended its
\* user message and placeholder, those entries are still in the store.
HistoryKeepsSent ==
    [][\A o \in HistoryOutcomes :
          HistoryLoaded(o) =>
             \A i \in SentEntries(messages) :
                 \E j \in 1..Len(messages') : messages'[j].id = messages[i].id]_vars

\* the load-more request f of the panel fails, with no request made after it
LoadMoreFails(f, o) ==
    /\ FetchSettled(f, o)
    /\ ~o.ok
    /\ fetches[f].offset > 0
    /\ \A g \in Fetches : g > f => fetches[g].pc = "idle"

\* C30: in the Admin chat panel a load-more whose request fails leaves the
\* store and the pagination offset as they were before the call, so that
\* the next load-more asks for the same page again, and isLoadingHistory
\* is false again.
FailedLoadMoreKeepsOffset ==
    [][\A f \in Fetches, o \in AdminFetchOutcomes :
          LoadMoreFails(f, o) =>
             /\ selectedUserChat' = selectedUserChat
             /\ chatOffset' = fetches[f].offset - AdminPageSize
             /\ ~isLoadingHistory']_vars

====
